---- MODULE Spec2Model ----
(***************************************************************************)
(* Model of the mnet32 networking component (krachkiste_esp32):            *)
(*   - the ConnectionState record (mnet32_state.c),                         *)
(*   - the controller task and its notification slot (mnet32.c),            *)
(*   - the WiFi mode handling and the AP shutdown timer (mnet32_wifi.c),    *)
(*   - the credential store and the POST handler (mnet32_nvs.c,             *)
(*     mnet32_web.c),                                                       *)
(*   - the radio (esp_wifi) as an environment that produces the events     *)
(*     mnet32_event_handler translates into notifications.                  *)
(*                                                                          *)
(* The helpers below are functions from a "world" record w (all variables   *)
(* of the model) to the world after the call, so that a handler is the      *)
(* composition of the calls it makes and every action is one whole handler. *)
(* Results of calls into ESP-IDF / FreeRTOS are parameters of the helpers   *)
(* and are chosen by the actions with \E.                                   *)
(***************************************************************************)
EXTENDS Integers, Sequences, FiniteSets, TLC

(* ----- program constants ----------------------------------------------- *)

MNET32_WIFI_STA_MAX_CONNECTION_ATTEMPTS == 3
MNET32_WIFI_AP_MAX_CONNS == 3

(* ----- bounds of the model --------------------------------------------- *)

\* Number of leaked, still running shutdown timers that are tracked.
MaxOrphans == 1

(* ----- value sets ------------------------------------------------------- *)

Mediums == {"UNSPECIFIED", "WIRELESS"}
Modes == {"NA", "AP", "STA"}
Statuses == {"DOWN", "READY", "CONNECTING", "IDLE", "BUSY"}

\* mnet32_task_notification; "NONE" is the empty notification slot.
Notifications ==
    {"STOP", "WIFI_START", "WIFI_RESTART", "AP_START", "AP_STACONNECTED",
     "AP_STADISCONNECTED", "STA_START", "STA_CONNECTED", "STA_DISCONNECTED"}

\* Strings are sequences of character codes (without the terminator).
Rep(c, n) == [i \in 1..n |-> c]

\* The credential "net1", which a client submits in the state machine.
Net1 == <<110, 101, 116, 49>>
CredVals == {Net1}

\* The store has no entry for a key (ESP_ERR_NVS_NOT_FOUND).
NvsMissing == <<-1>>

\* A value of 69 characters that another writer of the store left behind.
LongVal == Rep(97, 69)

\* Size of a stored string, including its terminator (nvs_get_str with a
\* NULL buffer).
NvsSize(v) == Len(v) + 1

\* Stored values of a key.
StoredVals == CredVals \cup {NvsMissing, LongVal}

NETWORKING_WIFI_SSID_MAX_LEN == 32
NETWORKING_WIFI_PSK_MAX_LEN == 64

\* The buffers of the POST handler.
MNET32_WIFI_SSID_MAX_LEN == 32
MNET32_WIFI_PSK_MAX_LEN == 64

\* "foobar"
MNET32_WIFI_AP_PSK == <<102, 111, 111, 98, 97, 114>>

\* The keys of the form fields: "ssid" and "psk".
KeySsid == <<115, 115, 105, 100>>
KeyPsk == <<112, 115, 107>>

\* '%', '&', '='
ChPercent == 37
ChAmp == 38
ChEq == 61

(* ----- bounds of the requests and configurations ------------------------ *)

\* The configured access point passwords have 6 .. MaxApPskLen characters.
MaxApPskLen == 9

(* ----- the client: form values and their encoding ------------------------ *)

\* "My Network", "secret123"
MyNetwork == <<77, 121, 32, 78, 101, 116, 119, 111, 114, 107>>
Secret123 == <<115, 101, 99, 114, 101, 116, 49, 50, 51>>

\* Values a client types into the form: the longest ones fill the
\* 32 byte SSID and the 64 byte PSK of the WiFi configuration.
RawSsids ==
    {MyNetwork, <<97, 37, 52, 49>>,
     Rep(97, MNET32_WIFI_SSID_MAX_LEN - 1), Rep(97, MNET32_WIFI_SSID_MAX_LEN)}
RawPsks ==
    {Secret123,
     Rep(98, MNET32_WIFI_PSK_MAX_LEN - 1), Rep(98, MNET32_WIFI_PSK_MAX_LEN)}

Unreserved(c) ==
    c \in (48..57) \cup (65..90) \cup (97..122) \cup {45, 46, 95, 126}

HexDigit(n) == IF n < 10 THEN 48 + n ELSE 55 + n

EncodeChar(c) ==
    IF Unreserved(c) THEN <<c>>
    ELSE <<ChPercent, HexDigit(c \div 16), HexDigit(c % 16)>>

RECURSIVE PercentEncode(_)
PercentEncode(v) ==
    IF v = <<>> THEN <<>> ELSE EncodeChar(Head(v)) \o PercentEncode(Tail(v))

Field(key, v) == key \o <<ChEq>> \o v

\* The body a client sends for the form values v_ssid and v_psk.
Form(v_ssid, v_psk) ==
    Field(KeySsid, PercentEncode(v_ssid)) \o <<ChAmp>>
        \o Field(KeyPsk, PercentEncode(v_psk))

FormBodies == {Form(a, b) : a \in RawSsids, b \in RawPsks}

\* Bodies that no form produces: other order of the fields, values that
\* contain the name of a key, malformed escapes, missing keys.
OtherBodies ==
    LET amp == <<ChAmp>>
        b == <<98>>
    IN  { Field(KeyPsk, Secret123) \o amp
              \o Field(KeySsid, PercentEncode(MyNetwork)),
          Field(KeySsid, <<109, 121>> \o KeyPsk) \o amp
              \o Field(KeyPsk, Secret123),
          Field(KeyPsk, <<109, 121>> \o KeySsid \o <<49>>) \o amp
              \o Field(KeySsid, Net1),
          Field(KeySsid, <<97, 37>>) \o amp \o Field(KeyPsk, b),
          Field(KeySsid, <<37, 52>>) \o amp \o Field(KeyPsk, b),
          Field(KeySsid, <<37, 122, 122>>) \o amp \o Field(KeyPsk, b),
          Field(KeySsid, <<37, 52, 71, 49>>) \o amp \o Field(KeyPsk, b),
          Field(KeySsid, <<37, 52, 97>>) \o amp \o Field(KeyPsk, b),
          Field(KeySsid, <<97>>) \o amp \o Field(KeyPsk, <<98, 37>>),
          Field(KeySsid, <<97>>) \o amp \o Field(KeyPsk, <<37, 52>>),
          Field(KeySsid, Net1),
          Field(KeyPsk, Secret123),
          Field(<<120>>, <<49>>),
          Field(KeyPsk, <<109, 121>> \o KeySsid \o <<49, 50>>),
          Field(KeyPsk, <<120>> \o KeySsid),
          <<>> }

Bodies == FormBodies \cup OtherBodies

\* Outcomes of a call whose behaviour is undefined (dangling handle).
UBOutcomes == {"benign", "crash"}

\* Points at which the initialisation functions can fail.
InitFailures == {"ok", "netif", "register", "task"}
WifiInitFailures == {"ok", "wifi_init", "register"}
ApInitFailures == {"ok", "no_timer", "netif", "set_mode", "set_config", "start"}
StaInitFailures == {"ok", "netif", "set_mode", "set_config", "start"}
CallResults == {"ok", "err"}
NvsWriteFailures == {"ok", "open", "ssid", "psk"}

VARIABLES
    stateInit,     \* state != NULL
    medium,        \* state->medium
    mode,          \* state->mode
    status,        \* state->status
    interface,     \* state->interface: "null", "ap" or "sta" netif
    medium_state,  \* state->medium_state: "null", "ap" (timer) or "sta" (counter)
    attempts,      \* medium_state_wifi_sta.num_connection_attempts (int8_t)
    task,          \* state->task: "null", "running", "deleted" (dangling handle)
    timer,         \* medium_state_wifi_ap.ap_shutdown_timer:
                   \* "none" (NULL), "dormant", "active", "deleted" (dangling)
    orphans,       \* running timers whose handle was lost by a teardown
    ipHandler,     \* mnet32_event_handler registered for IP_EVENT
    wifiHandler,   \* mnet32_event_handler registered for WIFI_EVENT
    notif,         \* the notification slot of the controller task
    radio,         \* esp_wifi: mode, pending start event, link, AP clients
    nvs,           \* the credential store
    lastEvent,     \* last MNET32_EVENTS event posted: "none", "READY", "UNAVAILABLE"
    crashed,       \* a NULL dereference / fatal outcome of undefined behaviour
    instances,     \* allocated struct mnet32_state records and live controller tasks
    ap_psk,        \* the configured MNET32_WIFI_AP_PSK
    web,           \* the POST request in progress and what became of it
    deinitLog,     \* history: result and count of mnet32_wifi_deinit with a failing radio call
    ipLog,         \* history: the IP_EVENT the event handler logged last
    startRet,      \* history: what the last mnet32_start returned ("none": not called)
    handled,       \* history: the notification the controller task handled last
    stopSrc,       \* history: who posted the pending STOP ("none", "timer", "app", "self")
    connectCalls,  \* history: esp_wifi_connect calls since station entry / STA_CONNECTED
    discHandled,   \* history: STA_DISCONNECTED handled since station entry / STA_CONNECTED
    everConnected, \* history: STA_CONNECTED handled since station entry
    fallbackAt     \* history: discHandled when the controller fell back to AP (0: not yet)

vars == <<stateInit, medium, mode, status, interface, medium_state, attempts,
          task, timer, orphans, ipHandler, wifiHandler, notif, radio, nvs,
          lastEvent, crashed, instances, ap_psk, web, deinitLog, ipLog, startRet,
          handled, stopSrc, connectCalls, discHandled, everConnected, fallbackAt>>

\* The variables that make up the ConnectionState record.
stateVars == <<stateInit, medium, mode, status, interface, medium_state,
               attempts, task>>

RadioOff == [mode |-> "off", startEv |-> FALSE, connecting |-> FALSE,
             connected |-> FALSE, clients |-> 0, auth |-> "none"]

\* No request is in progress.
NoValue == [ssid |-> <<>>, psk |-> <<>>]

WebIdle ==
    [phase |-> "idle",        \* "received", "handled", "read"
     body |-> <<>>,           \* buf
     found |-> [ssid |-> FALSE, psk |-> FALSE],  \* mnet32_web_get_value: ESP_OK
     esc |-> NoValue,         \* esc_value before the decoding
     dec |-> NoValue,         \* esc_value after the decoding
     oob |-> FALSE,           \* the decoding left the esc_value buffer
     ssid |-> <<>>,           \* the ssid buffer as written to the store
     psk |-> <<>>,            \* the psk buffer as written to the store
     esp_ret |-> "none",      \* result of mnet32_web_write_config_to_nvs
     response |-> "none",     \* "204", "500"
     read |-> [done |-> FALSE, ok |-> FALSE, ssid |-> <<>>, psk |-> <<>>]]

\* mnet32_wifi_deinit has not run with a failing radio call.
NoDeinit == [ret |-> "none", count |-> 0]

\* The radio call of mnet32_wifi_deinit that reports a failure: the
\* unregistering of the handler, esp_wifi_stop, esp_wifi_deinit, or all.
DeinitFailures == {"unregister", "stop", "deinit", "all"}

\* Deinitializations with a failing radio call in one run.
MaxFailingDeinits == 1

NvsEmpty == [ns |-> FALSE, ssid |-> NvsMissing, psk |-> NvsMissing]

\* The current world as one record.
World ==
    [stateInit |-> stateInit, medium |-> medium, mode |-> mode,
     status |-> status, interface |-> interface,
     medium_state |-> medium_state, attempts |-> attempts, task |-> task,
     timer |-> timer, orphans |-> orphans, ipHandler |-> ipHandler,
     wifiHandler |-> wifiHandler, notif |-> notif, radio |-> radio,
     nvs |-> nvs, lastEvent |-> lastEvent, crashed |-> crashed,
     instances |-> instances, ap_psk |-> ap_psk, web |-> web,
     deinitLog |-> deinitLog, ipLog |-> ipLog, startRet |-> startRet, handled |-> handled,
     stopSrc |-> stopSrc, connectCalls |-> connectCalls,
     discHandled |-> discHandled, everConnected |-> everConnected,
     fallbackAt |-> fallbackAt]

\* The next state is the world w.
Becomes(w) ==
    /\ stateInit' = w.stateInit
    /\ medium' = w.medium
    /\ mode' = w.mode
    /\ status' = w.status
    /\ interface' = w.interface
    /\ medium_state' = w.medium_state
    /\ attempts' = w.attempts
    /\ task' = w.task
    /\ timer' = w.timer
    /\ orphans' = w.orphans
    /\ ipHandler' = w.ipHandler
    /\ wifiHandler' = w.wifiHandler
    /\ notif' = w.notif
    /\ radio' = w.radio
    /\ nvs' = w.nvs
    /\ lastEvent' = w.lastEvent
    /\ crashed' = w.crashed
    /\ instances' = w.instances
    /\ ap_psk' = w.ap_psk
    /\ web' = w.web
    /\ deinitLog' = w.deinitLog
    /\ ipLog' = w.ipLog
    /\ startRet' = w.startRet
    /\ handled' = w.handled
    /\ stopSrc' = w.stopSrc
    /\ connectCalls' = w.connectCalls
    /\ discHandled' = w.discHandled
    /\ everConnected' = w.everConnected
    /\ fallbackAt' = w.fallbackAt

\* The current state is the world w.
StateIs(w) ==
    /\ stateInit = w.stateInit
    /\ medium = w.medium
    /\ mode = w.mode
    /\ status = w.status
    /\ interface = w.interface
    /\ medium_state = w.medium_state
    /\ attempts = w.attempts
    /\ task = w.task
    /\ timer = w.timer
    /\ orphans = w.orphans
    /\ ipHandler = w.ipHandler
    /\ wifiHandler = w.wifiHandler
    /\ notif = w.notif
    /\ radio = w.radio
    /\ nvs = w.nvs
    /\ lastEvent = w.lastEvent
    /\ crashed = w.crashed
    /\ instances = w.instances
    /\ ap_psk = w.ap_psk
    /\ web = w.web
    /\ deinitLog = w.deinitLog
    /\ ipLog = w.ipLog
    /\ startRet = w.startRet
    /\ handled = w.handled
    /\ stopSrc = w.stopSrc
    /\ connectCalls = w.connectCalls
    /\ discHandled = w.discHandled
    /\ everConnected = w.everConnected
    /\ fallbackAt = w.fallbackAt

\* A NULL dereference or a fatal outcome of undefined behaviour.
Crash(w) == [w EXCEPT !.crashed = TRUE]

\* int8_t increment (num_connection_attempts++).
Int8Inc(n) == ((n + 1 + 128) % 256) - 128

(* ----- mnet32_state.c ---------------------------------------------------- *)

\* The timer handle stored in medium_state is lost (free() or overwrite of
\* medium_state): the FreeRTOS timer itself is not deleted, so a running
\* timer keeps running without an owner.
LoseTimerHandle(w) ==
    [w EXCEPT !.timer = "none",
              !.orphans = IF w.timer = "active" /\ w.orphans < MaxOrphans
                          THEN w.orphans + 1 ELSE w.orphans]

mnet32_state_init(w) ==
    [w EXCEPT !.stateInit = TRUE, !.medium = "UNSPECIFIED", !.mode = "NA",
              !.status = "DOWN", !.interface = "null",
              !.medium_state = "null", !.attempts = 0, !.task = "null",
              !.instances.states = w.instances.states + 1]

mnet32_state_destroy(w) ==
    [LoseTimerHandle(w) EXCEPT
              !.stateInit = FALSE, !.medium = "UNSPECIFIED", !.mode = "NA",
              !.status = "DOWN", !.interface = "null",
              !.medium_state = "null", !.attempts = 0, !.task = "null",
              !.instances.states = w.instances.states - 1]

mnet32_state_medium_state_init(w, kind) ==
    [LoseTimerHandle(w) EXCEPT !.medium_state = kind, !.attempts = 0]

mnet32_state_medium_state_destroy(w) ==
    [LoseTimerHandle(w) EXCEPT !.medium_state = "null", !.attempts = 0]

mnet32_state_is_mode_set(w) == w.mode # "NA"

mnet32_state_is_status_idle(w) == w.status = "IDLE"

(* ----- mnet32.c: events and notifications ------------------------------- *)

mnet32_emit_event(w, e) == [w EXCEPT !.lastEvent = e]

\* A variant of mnet32_notify that keeps a pending notification
\* (eSetValueWithoutOverwrite).
mnet32_notify_without_overwrite(w, n, src, ub) ==
    IF ~w.stateInit \/ w.task = "null" THEN Crash(w)
    ELSE IF w.task = "deleted"
         THEN (IF ub = "crash" THEN Crash(w) ELSE w)
         ELSE IF w.notif # "NONE" THEN w
         ELSE [w EXCEPT !.notif = n, !.stopSrc = src]

\* xTaskNotifyIndexed(state->task, ..., eSetValueWithOverwrite): reads
\* state->task (NULL dereference without a state), notifies a deleted task
\* through its dangling handle (undefined), or overwrites the slot.
mnet32_notify(w, n, src, ub) ==
    IF ~w.stateInit \/ w.task = "null" THEN Crash(w)
    ELSE IF w.task = "deleted"
         THEN (IF ub = "crash" THEN Crash(w) ELSE w)
         ELSE [w EXCEPT !.notif = n, !.stopSrc = src]

mnet32_stop(w, src, ub) == mnet32_notify(w, "STOP", src, ub)

(* ----- mnet32_wifi.c: shutdown timer ------------------------------------ *)

\* A variant of mnet32_wifi_ap_timer_stop that leaves the timer running.
mnet32_wifi_ap_timer_stop_keeps_running(w, ub) ==
    IF w.medium_state # "ap" THEN Crash(w) ELSE w

mnet32_wifi_ap_timer_stop(w, ub) ==
    IF w.medium_state # "ap" THEN Crash(w)
    ELSE CASE w.timer = "none" -> w
           [] w.timer = "dormant" -> w
           [] w.timer = "active" -> [w EXCEPT !.timer = "dormant"]
           [] w.timer = "deleted" -> (IF ub = "crash" THEN Crash(w) ELSE w)

mnet32_wifi_ap_timer_start(w, ub) ==
    IF w.medium_state # "ap" THEN Crash(w)
    ELSE CASE w.timer = "none" -> w
           [] w.timer = "active" -> w
           [] w.timer = "dormant" -> [w EXCEPT !.timer = "active"]
           [] w.timer = "deleted" -> (IF ub = "crash" THEN Crash(w) ELSE w)

\* The timer callback, for the timer of the current medium_state
\* (own = TRUE) or for a timer whose handle was lost (own = FALSE).
wifi_ap_timed_shutdown(w, own, ub) ==
    LET expired == IF own THEN [w EXCEPT !.timer = "dormant"]
                   ELSE [w EXCEPT !.orphans = w.orphans - 1]
        deleted == IF own THEN [w EXCEPT !.timer = "deleted"]
                   ELSE [w EXCEPT !.orphans = w.orphans - 1]
    IN  IF ~w.stateInit THEN Crash(expired)
        ELSE IF ~mnet32_state_is_status_idle(w) THEN expired
        ELSE mnet32_stop(deleted, "timer", ub)

\* A variant of mnet32_wifi_ap_get_connected_stations that reports no
\* clients when the query fails.
mnet32_wifi_ap_get_connected_stations_zero_on_error(w, res) ==
    IF res = "ok" /\ w.radio.mode = "ap" THEN w.radio.clients ELSE 0

\* esp_wifi_ap_get_sta_list: the number of clients, or -1.
mnet32_wifi_ap_get_connected_stations(w, res) ==
    IF res = "ok" /\ w.radio.mode = "ap" THEN w.radio.clients ELSE -1

(* ----- mnet32_wifi.c: access point and station mode --------------------- *)

ApInitOk(apf) == apf \in {"ok", "no_timer"}

\* The authmode of ap_config: WPA/WPA2-PSK, switched to open if
\* strlen(MNET32_WIFI_AP_PSK) <= 8.
ApAuthMode(psk) == IF Len(psk) <= 8 THEN "open" ELSE "wpa_wpa2_psk"

\* A variant of mnet32_wifi_ap_init that does not allocate the extension.
mnet32_wifi_ap_init_without_extension(w, apf) ==
    IF apf = "netif" THEN [w EXCEPT !.interface = "null"]
    ELSE
      LET w1 == [w EXCEPT !.interface = "ap"]
          w2 == [w1 EXCEPT !.mode = "AP"]
      IN  CASE apf = "set_mode" -> w1
            [] apf \in {"set_config", "start"} -> w2
            [] OTHER -> [w2 EXCEPT !.radio =
                            [RadioOff EXCEPT !.mode = "ap", !.startEv = TRUE,
                                             !.auth = ApAuthMode(w.ap_psk)]]

mnet32_wifi_ap_init(w, apf) ==
    IF apf = "netif" THEN [w EXCEPT !.interface = "null"]
    ELSE
      LET w1 == [mnet32_state_medium_state_init(
                     [w EXCEPT !.interface = "ap"], "ap")
                 EXCEPT !.timer = IF apf = "no_timer" THEN "none" ELSE "dormant"]
          w2 == [w1 EXCEPT !.mode = "AP"]
      IN  CASE apf = "set_mode" -> w1
            [] apf \in {"set_config", "start"} -> w2
            [] OTHER -> [w2 EXCEPT !.radio =
                            [RadioOff EXCEPT !.mode = "ap", !.startEv = TRUE,
                                             !.auth = ApAuthMode(w.ap_psk)]]

wifi_ap_deinit(w) ==
    LET w1 == [w EXCEPT !.radio = RadioOff, !.interface = "null"]
        w2 == IF w1.medium_state # "null"
              THEN mnet32_state_medium_state_destroy(w1) ELSE w1
    IN  [w2 EXCEPT !.mode = "NA"]

mnet32_wifi_sta_reset_connection_counter(w) ==
    IF w.medium_state # "sta" THEN Crash(w) ELSE [w EXCEPT !.attempts = 0]

StaInitOk(sf) == sf = "ok"

wifi_sta_init(w, sf) ==
    IF sf = "netif" THEN [w EXCEPT !.interface = "null"]
    ELSE
      LET w1 == [mnet32_wifi_sta_reset_connection_counter(
                     mnet32_state_medium_state_init(
                         [w EXCEPT !.interface = "sta"], "sta"))
                 EXCEPT !.connectCalls = 0, !.discHandled = 0,
                        !.everConnected = FALSE, !.fallbackAt = 0]
          w2 == [w1 EXCEPT !.mode = "STA"]
      IN  CASE sf = "set_mode" -> w1
            [] sf \in {"set_config", "start"} -> w2
            [] OTHER -> [w2 EXCEPT !.radio =
                            [RadioOff EXCEPT !.mode = "sta", !.startEv = TRUE]]

mnet32_wifi_sta_deinit(w) ==
    LET w1 == [w EXCEPT !.radio = RadioOff, !.interface = "null"]
        w2 == IF w1.medium_state # "null"
              THEN mnet32_state_medium_state_destroy(w1) ELSE w1
    IN  [w2 EXCEPT !.mode = "NA"]

\* num_connection_attempts++ and esp_wifi_connect(); a failed connect call
\* is only logged.
mnet32_wifi_sta_connect(w, cf) ==
    IF w.medium_state # "sta" THEN Crash(w)
    ELSE [w EXCEPT !.attempts = Int8Inc(w.attempts),
                   !.connectCalls = w.connectCalls + 1,
                   !.radio = IF cf = "ok" /\ w.radio.mode = "sta"
                             THEN [w.radio EXCEPT !.connecting = TRUE]
                             ELSE w.radio]

mnet32_wifi_sta_get_num_connection_attempts(w) == w.attempts

(* ----- credentials ------------------------------------------------------ *)

\* nvs_open(MNET32_NVS_NAMESPACE, ...) fails for a namespace never written.
mnet32_get_nvs_handle(n) == n.ns

\* A variant of mnet32_get_string_from_nvs without the check of the size.
mnet32_get_string_from_nvs_any_size(v, max_buf_size) ==
    v # NvsMissing

\* nvs_get_str for the size (fails for a missing key), the check of the
\* size against the buffer, nvs_get_str for the value.
mnet32_get_string_from_nvs(v, max_buf_size) ==
    IF v = NvsMissing THEN FALSE
    ELSE IF NvsSize(v) > max_buf_size THEN FALSE
    ELSE TRUE

\* Open the namespace, read the SSID, read the PSK; any failure is a failure.
\* (The calls are the ones listed in the body of the function, which this
\* revision of the file has disabled in favour of a plain failure.)
wifi_get_config_from_nvs(n) ==
    /\ mnet32_get_nvs_handle(n)
    /\ mnet32_get_string_from_nvs(n.ssid, NETWORKING_WIFI_SSID_MAX_LEN)
    /\ mnet32_get_string_from_nvs(n.psk, NETWORKING_WIFI_PSK_MAX_LEN)

mnet32_web_write_config_to_nvs(n, ssid, psk, nf) ==
    CASE nf = "open" -> n
      [] nf = "ssid" -> [n EXCEPT !.ns = TRUE]
      [] nf = "psk" -> [n EXCEPT !.ns = TRUE, !.ssid = ssid]
      [] OTHER -> [ns |-> TRUE, ssid |-> ssid, psk |-> psk]

\* What wifi_init reads from the store into nvs_sta_ssid and nvs_sta_psk.
wifi_config_read(n) ==
    IF wifi_get_config_from_nvs(n)
    THEN [done |-> TRUE, ok |-> TRUE, ssid |-> n.ssid, psk |-> n.psk]
    ELSE [done |-> TRUE, ok |-> FALSE, ssid |-> <<>>, psk |-> <<>>]

(* ----- mnet32_web.c: the parsing of the POST body ------------------------- *)

\* C strings are sequences of bytes; a buffer holds its terminator as 0.
At(b, i) == IF i \in 1..Len(b) THEN b[i] ELSE 0

\* The first index >= from where needle occurs in hay, 0 if there is none.
StrStr(hay, needle, from) ==
    LET hits == {i \in from..(Len(hay) - Len(needle) + 1) :
                    SubSeq(hay, i, i + Len(needle) - 1) = needle}
    IN  IF hits = {} THEN 0 ELSE CHOOSE i \in hits : \A j \in hits : i <= j

\* The index of the first 0 at or after from (Len(b) + 1 if there is none).
NulFrom(b, from) ==
    LET z == {i \in from..Len(b) : b[i] = 0}
    IN  IF z = {} THEN Len(b) + 1 ELSE CHOOSE i \in z : \A j \in z : i <= j

\* The string a buffer holds: the bytes before the first 0.
CStr(b) == SubSeq(b, 1, NulFrom(b, 1) - 1)

\* A variant of isxdigit that accepts every byte.
isxdigit_any(c) == TRUE

isxdigit(c) == c \in (48..57) \cup (65..70) \cup (97..102)

HexVal(c) ==
    IF c \in 48..57 THEN c - 48 ELSE IF c \in 65..70 THEN c - 55 ELSE c - 87

\* strtol(estr, NULL, 16) for the two digits
strtol16(c1, c2) == 16 * HexVal(c1) + HexVal(c2)

\* The indices the condition of the loop body reads at position i: the
\* second digit is read only if the first one is a hex digit.
EscapeReads(b, i) ==
    IF b[i] # ChPercent THEN {}
    ELSE IF isxdigit(At(b, i + 1)) THEN {i + 1, i + 2} ELSE {i + 1}

IsEscape(b, i) ==
    /\ b[i] = ChPercent
    /\ isxdigit(At(b, i + 1))
    /\ isxdigit(At(b, i + 2))

\* memmove(&esc_value[i + 1], &esc_value[i + 3], strlen(...) + 1) and
\* esc_value[i] = converted: the rest of the string and its terminator move
\* two bytes down, the bytes behind them stay.
ReplaceEscape(b, i) ==
    LET t == NulFrom(b, i + 3)
    IN  [k \in 1..Len(b) |->
            IF k = i THEN strtol16(At(b, i + 1), At(b, i + 2))
            ELSE IF k \in (i + 1)..(t - 2) THEN At(b, k + 2)
            ELSE b[k]]

\* The decoding loop from position i on; d.buf is esc_value, d.oob records
\* an access outside of it.
RECURSIVE UrlDecode(_, _)
UrlDecode(d, i) ==
    IF i > Len(d.buf) THEN [d EXCEPT !.oob = TRUE]
    ELSE IF d.buf[i] = 0 THEN d
    ELSE
      LET out == \E k \in EscapeReads(d.buf, i) : k > Len(d.buf)
      IN  IF IsEscape(d.buf, i)
          THEN UrlDecode(
                   [buf |-> ReplaceEscape(d.buf, i),
                    oob |-> d.oob \/ out \/ i + 3 > Len(d.buf)], i + 1)
          ELSE UrlDecode([d EXCEPT !.oob = d.oob \/ out], i + 1)

\* What an out-of-bounds read behind the request buffer can lead to.
ReadOutcomes == {"crash", "garbage"}
Garbage == <<63>>

\* mnet32_web_get_value without the final strcpy: ret, the esc_value buffer
\* before and after the decoding. value_begin behind the terminator of raw
\* reads memory that is not part of the request.
mnet32_web_get_value(key, raw, rd) ==
    LET key_offset == StrStr(raw, key, 1)
        value_begin == key_offset + Len(key) + 1
        value_end == StrStr(raw, <<ChAmp>>, value_begin)
        value_len == (IF value_end = 0 THEN Len(raw) + 1 ELSE value_end)
                         - value_begin
        esc_value == SubSeq(raw, value_begin, value_begin + value_len - 1)
                         \o <<0>>
        d == UrlDecode([buf |-> esc_value, oob |-> FALSE], 1)
    IN  IF key_offset = 0
        THEN [ret |-> "ESP_FAIL", crash |-> FALSE, wild |-> FALSE,
              esc |-> <<>>, dec |-> <<>>, oob |-> FALSE]
        ELSE IF value_begin > Len(raw) + 1
        THEN [ret |-> "ESP_OK", crash |-> rd = "crash", wild |-> TRUE,
              esc |-> Garbage, dec |-> Garbage, oob |-> FALSE]
        ELSE [ret |-> "ESP_OK", crash |-> FALSE, wild |-> FALSE,
              esc |-> CStr(esc_value), dec |-> CStr(d.buf), oob |-> d.oob]

\* Where the two buffers of the handler lie: an strcpy of more than the size
\* of a buffer writes into what follows it.
Layouts == {"apart", "psk_after_ssid", "ssid_after_psk", "crash"}

\* The strings that ssid and psk hold after both calls: the ssid buffer is
\* written first, each buffer is read up to the first 0.
BuffersAfterCopy(v_ssid, found_ssid, v_psk, found_psk, ov) ==
    LET s == IF found_ssid THEN v_ssid ELSE <<>>
        q == IF found_psk THEN v_psk ELSE <<>>
        over_s == Len(s) + 1 > MNET32_WIFI_SSID_MAX_LEN
        over_q == Len(q) + 1 > MNET32_WIFI_PSK_MAX_LEN
        spill_s == SubSeq(s, MNET32_WIFI_SSID_MAX_LEN + 1, Len(s))
        spill_q == SubSeq(q, MNET32_WIFI_PSK_MAX_LEN + 1, Len(q))
    IN  CASE (over_s \/ over_q) /\ ov = "crash" ->
               [crash |-> TRUE, ssid |-> s, psk |-> q]
          [] over_s /\ ov = "psk_after_ssid" ->
               IF found_psk
               THEN [crash |-> FALSE, psk |-> q,
                     ssid |-> IF Len(s) >= MNET32_WIFI_SSID_MAX_LEN
                              THEN SubSeq(s, 1, MNET32_WIFI_SSID_MAX_LEN) \o q
                              ELSE s]
               ELSE [crash |-> FALSE, psk |-> spill_s, ssid |-> s]
          [] over_q /\ ov = "ssid_after_psk" ->
               [crash |-> FALSE, psk |-> q, ssid |-> spill_q]
          [] OTHER -> [crash |-> FALSE, ssid |-> s, psk |-> q]

(* ----- mnet32_wifi.c: init / deinit / start ----------------------------- *)

\* A variant of mnet32_wifi_deinit_failing that returns the error of the
\* first failing call instead of continuing.
mnet32_wifi_deinit_failing_gives_up(w, df) ==
    LET w1 == [w EXCEPT !.wifiHandler = FALSE]
        w2 == IF w1.mode = "AP" THEN wifi_ap_deinit(w1) ELSE w1
        w3 == IF w2.mode = "STA" THEN mnet32_wifi_sta_deinit(w2) ELSE w2
    IN  CASE df \in {"unregister", "all"} ->
               [w EXCEPT !.deinitLog = [ret |-> "ESP_FAIL", count |-> w.deinitLog.count + 1]]
          [] df = "stop" /\ w1.mode # "NA" ->
               [w1 EXCEPT !.deinitLog = [ret |-> "ESP_FAIL", count |-> w.deinitLog.count + 1]]
          [] df = "deinit" ->
               [w3 EXCEPT !.deinitLog = [ret |-> "ESP_FAIL", count |-> w.deinitLog.count + 1]]
          [] OTHER ->
               [w3 EXCEPT !.medium = "UNSPECIFIED",
                          !.deinitLog = [ret |-> "ESP_OK", count |-> w.deinitLog.count + 1]]

\* mnet32_wifi_deinit when the radio call df reports a failure: the failure
\* is logged and the function continues. A handler that could not be
\* unregistered stays registered, a radio that could not be stopped keeps
\* running.
mnet32_wifi_deinit_failing(w, df) ==
    LET w1 == IF df \in {"unregister", "all"} THEN w
              ELSE [w EXCEPT !.wifiHandler = FALSE]
        r == IF df \in {"stop", "all"} THEN w.radio ELSE RadioOff
        w2 == IF w1.mode = "AP"
              THEN [wifi_ap_deinit(w1) EXCEPT !.radio = r] ELSE w1
        w3 == IF w2.mode = "STA"
              THEN [mnet32_wifi_sta_deinit(w2) EXCEPT !.radio = r] ELSE w2
    IN  [w3 EXCEPT !.medium = "UNSPECIFIED",
                   !.deinitLog = [ret |-> "ESP_OK", count |-> w.deinitLog.count + 1]]

mnet32_wifi_deinit(w) ==
    LET w1 == [w EXCEPT !.wifiHandler = FALSE]
        w2 == IF w1.mode = "AP" THEN wifi_ap_deinit(w1) ELSE w1
        w3 == IF w2.mode = "STA" THEN mnet32_wifi_sta_deinit(w2) ELSE w2
    IN  [w3 EXCEPT !.medium = "UNSPECIFIED"]

wifi_init_ok(w, wf, sf, apf) ==
    IF mnet32_state_is_mode_set(w) THEN TRUE
    ELSE IF wf # "ok" THEN FALSE
    ELSE IF ~wifi_get_config_from_nvs(w.nvs) THEN ApInitOk(apf)
    ELSE IF ~StaInitOk(sf) THEN ApInitOk(apf)
    ELSE TRUE

\* A variant of wifi_init without the check for a mode that is already set.
wifi_init_without_guard(w, wf, sf, apf) ==
    IF wf = "wifi_init" THEN w
    ELSE
      LET w1 == [w EXCEPT !.medium = "WIRELESS"]
          w2 == [w1 EXCEPT !.wifiHandler = TRUE]
      IN  IF wf = "register" THEN w1
          ELSE IF ~wifi_get_config_from_nvs(w.nvs)
               THEN mnet32_wifi_ap_init(w2, apf)
          ELSE IF ~StaInitOk(sf)
               THEN mnet32_wifi_ap_init(
                        mnet32_wifi_sta_deinit(wifi_sta_init(w2, sf)), apf)
          ELSE wifi_sta_init(w2, sf)

\* A variant of wifi_init that leaves a failed station mode as it is.
wifi_init_keeps_failed_station(w, wf, sf, apf) ==
    IF mnet32_state_is_mode_set(w) THEN w
    ELSE IF wf = "wifi_init" THEN w
    ELSE
      LET w1 == [w EXCEPT !.medium = "WIRELESS"]
          w2 == [w1 EXCEPT !.wifiHandler = TRUE]
      IN  IF wf = "register" THEN w1
          ELSE IF ~wifi_get_config_from_nvs(w.nvs)
               THEN mnet32_wifi_ap_init(w2, apf)
          ELSE IF ~StaInitOk(sf)
               THEN mnet32_wifi_ap_init(wifi_sta_init(w2, sf), apf)
          ELSE wifi_sta_init(w2, sf)

wifi_init(w, wf, sf, apf) ==
    IF mnet32_state_is_mode_set(w) THEN w
    ELSE IF wf = "wifi_init" THEN w
    ELSE
      LET w1 == [w EXCEPT !.medium = "WIRELESS"]
          w2 == [w1 EXCEPT !.wifiHandler = TRUE]
      IN  IF wf = "register" THEN w1
          ELSE IF ~wifi_get_config_from_nvs(w.nvs)
               THEN mnet32_wifi_ap_init(w2, apf)
          ELSE IF ~StaInitOk(sf)
               THEN mnet32_wifi_ap_init(
                        mnet32_wifi_sta_deinit(wifi_sta_init(w2, sf)), apf)
          ELSE wifi_sta_init(w2, sf)

mnet32_wifi_start(w, wf, sf, apf) ==
    IF wifi_init_ok(w, wf, sf, apf) THEN wifi_init(w, wf, sf, apf)
    ELSE mnet32_wifi_deinit(wifi_init(w, wf, sf, apf))

(* ----- mnet32.c: init / deinit ------------------------------------------ *)

\* A variant of AttemptsExceeded that allows one more attempt.
AttemptsExceeded_one_more(n) == n > MNET32_WIFI_STA_MAX_CONNECTION_ATTEMPTS + 1

\* The fallback condition of the STA_DISCONNECTED case.
AttemptsExceeded(n) == n > MNET32_WIFI_STA_MAX_CONNECTION_ATTEMPTS

mnet32_init_ok(w, f) == ~w.stateInit /\ f = "ok"

\* A variant of mnet32_init without the check for an existing state.
mnet32_init_unguarded(w, f, ub) ==
    IF f = "netif" THEN w
    ELSE
      LET w1 == mnet32_state_init(w)
          w2 == [w1 EXCEPT !.ipHandler = TRUE]
          w3 == [w2 EXCEPT !.task = "running", !.notif = "NONE",
                           !.stopSrc = "none", !.handled = "NONE",
                           !.instances.tasks = w2.instances.tasks + 1]
      IN  CASE f = "register" -> w1
            [] f = "task" -> w2
            [] OTHER -> mnet32_notify(w3, "WIFI_START", "none", ub)

mnet32_init(w, f, ub) ==
    IF w.stateInit THEN w
    ELSE IF f = "netif" THEN w
    ELSE
      LET w1 == mnet32_state_init(w)
          w2 == [w1 EXCEPT !.ipHandler = TRUE]
          w3 == [w2 EXCEPT !.task = "running", !.notif = "NONE",
                           !.stopSrc = "none", !.handled = "NONE",
                           !.instances.tasks = w2.instances.tasks + 1]
      IN  CASE f = "register" -> w1
            [] f = "task" -> w2
            [] OTHER -> mnet32_notify(w3, "WIFI_START", "none", ub)

\* self: the caller is the controller task itself (the STOP case), so that
\* vTaskDelete(state->task) deletes the calling task and does not return.
mnet32_deinit(w, self, ub) ==
    IF ~w.stateInit THEN w
    ELSE
      LET w1 == IF w.medium = "WIRELESS" THEN mnet32_wifi_deinit(w) ELSE w
          w2 == [w1 EXCEPT !.ipHandler = FALSE]
          gone == [w2 EXCEPT !.task = "deleted", !.notif = "NONE",
                             !.stopSrc = "none",
                             !.instances.tasks = w2.instances.tasks - 1]
      IN  CASE w2.task = "null" -> mnet32_state_destroy(w2)
            [] w2.task = "running" /\ self -> gone
            [] w2.task = "running" /\ ~self -> mnet32_state_destroy(gone)
            [] OTHER -> IF ub = "crash" THEN Crash(w2)
                        ELSE mnet32_state_destroy(w2)

\* A variant of mnet32_start that does not tear down after a failed
\* initialization.
mnet32_start_without_teardown(w, f, ub) ==
    IF mnet32_init_ok(w, f)
    THEN [mnet32_init(w, f, ub) EXCEPT !.startRet = "ESP_OK"]
    ELSE [mnet32_init(w, f, ub) EXCEPT !.startRet = "ESP_FAIL"]

mnet32_start(w, f, ub) ==
    IF mnet32_init_ok(w, f)
    THEN [mnet32_init(w, f, ub) EXCEPT !.startRet = "ESP_OK"]
    ELSE [mnet32_deinit(mnet32_init(w, f, ub), FALSE, ub)
              EXCEPT !.startRet = "ESP_FAIL"]

(* ----- mnet32.c: the radio event handler -------------------------------- *)

\* WIFI_EVENT ids are forwarded as notifications.
mnet32_event_handler(w, id, ub) == mnet32_notify(w, id, "none", ub)

\* A variant of mnet32_event_handler_ip that forwards the assignment of an
\* address like the connect of a client.
mnet32_event_handler_ip_notifies(w, id, ub) ==
    IF id = "AP_STAIPASSIGNED"
    THEN mnet32_notify([w EXCEPT !.ipLog = id], "AP_STACONNECTED", "none", ub)
    ELSE [w EXCEPT !.ipLog = "unhandled"]

\* The IP_EVENT branch: IP_EVENT_AP_STAIPASSIGNED logs the address, every
\* other id logs "Got unhandled IP_EVENT".
mnet32_event_handler_ip(w, id, ub) ==
    IF id = "AP_STAIPASSIGNED"
    THEN [w EXCEPT !.ipLog = id]
    ELSE [w EXCEPT !.ipLog = "unhandled"]

(* ----- mnet32.c: the controller task ------------------------------------ *)

\* xTaskNotifyWaitIndexed returned pdPASS: the slot is read and cleared.
Consume(w) ==
    [w EXCEPT !.notif = "NONE", !.stopSrc = "none", !.handled = w.notif]

Running == ~crashed /\ stateInit /\ task = "running"

task_stop(w, ub) ==
    mnet32_deinit(mnet32_emit_event(w, "UNAVAILABLE"), TRUE, ub)

\* A variant of task_wifi_start that sets the status itself.
task_wifi_start_sets_idle(w, wf, sf, apf) ==
    [mnet32_wifi_start(w, wf, sf, apf) EXCEPT !.status = "IDLE"]

task_wifi_start(w, wf, sf, apf) == mnet32_wifi_start(w, wf, sf, apf)

\* The WIFI_RESTART case when a radio call of mnet32_wifi_deinit fails.
task_wifi_restart_deinit_failing(w, df, wf, sf, apf) ==
    mnet32_wifi_start(
        mnet32_wifi_deinit_failing(mnet32_emit_event(w, "UNAVAILABLE"), df),
        wf, sf, apf)

task_wifi_restart(w, wf, sf, apf) ==
    mnet32_wifi_start(
        mnet32_wifi_deinit(mnet32_emit_event(w, "UNAVAILABLE")), wf, sf, apf)

task_ap_start(w, ub) ==
    LET w1 == mnet32_wifi_ap_timer_start([w EXCEPT !.status = "IDLE"], ub)
    IN  IF w1.crashed THEN w1 ELSE mnet32_emit_event(w1, "READY")

task_ap_staconnected(w, ub) ==
    mnet32_wifi_ap_timer_stop([w EXCEPT !.status = "BUSY"], ub)

\* A variant of task_ap_stadisconnected without the check for clients.
task_ap_stadisconnected_ignores_count(w, res, ub) ==
    mnet32_wifi_ap_timer_start([w EXCEPT !.status = "IDLE"], ub)

task_ap_stadisconnected(w, res, ub) ==
    IF mnet32_wifi_ap_get_connected_stations(w, res) = 0
    THEN mnet32_wifi_ap_timer_start([w EXCEPT !.status = "IDLE"], ub)
    ELSE w

task_sta_start(w, cf) ==
    mnet32_wifi_sta_connect([w EXCEPT !.status = "CONNECTING"], cf)

\* A variant of task_sta_connected that keeps the attempt counter.
task_sta_connected_keeps_counter(w) ==
    [mnet32_emit_event([w EXCEPT !.status = "READY"], "READY") EXCEPT
        !.connectCalls = 0, !.discHandled = 0, !.everConnected = TRUE]

task_sta_connected(w) ==
    LET w1 == mnet32_wifi_sta_reset_connection_counter(
                  [w EXCEPT !.status = "READY"])
    IN  IF w1.crashed THEN w1
        ELSE [mnet32_emit_event(w1, "READY") EXCEPT
                 !.connectCalls = 0, !.discHandled = 0, !.everConnected = TRUE]

task_sta_disconnected(w, cf, apf, ub) ==
    IF w.medium_state # "sta" THEN Crash(w)
    ELSE
      LET w0 == [w EXCEPT !.discHandled = w.discHandled + 1]
      IN  IF AttemptsExceeded(mnet32_wifi_sta_get_num_connection_attempts(w0))
          THEN LET w1 == mnet32_wifi_ap_init(
                             mnet32_wifi_sta_deinit(
                                 [w0 EXCEPT !.fallbackAt = w0.discHandled]),
                             apf)
               IN  IF ApInitOk(apf) THEN w1
                   ELSE mnet32_notify(w1, "STOP", "self", ub)
          ELSE mnet32_wifi_sta_connect(w0, cf)

(* ----- state machine ---------------------------------------------------- *)

\* The world before mnet32_start: state == NULL, the store as it was left
\* by earlier runs, the configured access point password.
Boot(n, psk) ==
    [stateInit |-> FALSE, medium |-> "UNSPECIFIED", mode |-> "NA",
     status |-> "DOWN", interface |-> "null", medium_state |-> "null",
     attempts |-> 0, task |-> "null", timer |-> "none", orphans |-> 0,
     ipHandler |-> FALSE, wifiHandler |-> FALSE, notif |-> "NONE",
     radio |-> RadioOff, nvs |-> n, lastEvent |-> "none", crashed |-> FALSE,
     instances |-> [states |-> 0, tasks |-> 0], ap_psk |-> psk,
     web |-> WebIdle, deinitLog |-> NoDeinit, ipLog |-> "none", startRet |-> "none",
     handled |-> "NONE", stopSrc |-> "none",
     connectCalls |-> 0, discHandled |-> 0, everConnected |-> FALSE,
     fallbackAt |-> 0]

InitialStores ==
    {NvsEmpty} \cup
    {n \in [ns : {TRUE}, ssid : StoredVals, psk : StoredVals] :
        n.ssid # LongVal \/ n.psk # LongVal}

Init == \E n \in InitialStores : StateIs(Boot(n, MNET32_WIFI_AP_PSK))

(* The application calls the public interface. *)

AppStart ==
    /\ ~crashed
    /\ \E f \in InitFailures, ub \in UBOutcomes :
          Becomes(mnet32_start(World, f, ub))

AppStop ==
    /\ ~crashed
    /\ \E ub \in UBOutcomes : Becomes(mnet32_stop(World, "app", ub))

(* The controller task handles one notification. *)

HandleStop ==
    /\ Running /\ notif = "STOP"
    /\ \E ub \in UBOutcomes : Becomes(task_stop(Consume(World), ub))

HandleWifiStart ==
    /\ Running /\ notif = "WIFI_START"
    /\ \E wf \in WifiInitFailures, sf \in StaInitFailures,
          apf \in ApInitFailures :
          Becomes(task_wifi_start(Consume(World), wf, sf, apf))

HandleWifiRestart ==
    /\ Running /\ notif = "WIFI_RESTART"
    /\ \E wf \in WifiInitFailures, sf \in StaInitFailures,
          apf \in ApInitFailures :
          Becomes(task_wifi_restart(Consume(World), wf, sf, apf))

HandleApStart ==
    /\ Running /\ notif = "AP_START"
    /\ \E ub \in UBOutcomes : Becomes(task_ap_start(Consume(World), ub))

HandleApStaConnected ==
    /\ Running /\ notif = "AP_STACONNECTED"
    /\ \E ub \in UBOutcomes : Becomes(task_ap_staconnected(Consume(World), ub))

HandleApStaDisconnected ==
    /\ Running /\ notif = "AP_STADISCONNECTED"
    /\ \E res \in CallResults, ub \in UBOutcomes :
          Becomes(task_ap_stadisconnected(Consume(World), res, ub))

HandleStaStart ==
    /\ Running /\ notif = "STA_START"
    /\ \E cf \in CallResults : Becomes(task_sta_start(Consume(World), cf))

HandleStaConnected ==
    /\ Running /\ notif = "STA_CONNECTED"
    /\ Becomes(task_sta_connected(Consume(World)))

HandleStaDisconnected ==
    /\ Running /\ notif = "STA_DISCONNECTED"
    /\ \E cf \in CallResults, apf \in ApInitFailures, ub \in UBOutcomes :
          Becomes(task_sta_disconnected(Consume(World), cf, apf, ub))

(* The radio raises a WIFI_EVENT, which mnet32_event_handler forwards. *)

RadioEvent(id, r) ==
    /\ ~crashed /\ wifiHandler
    /\ \E ub \in UBOutcomes :
          Becomes(mnet32_event_handler([World EXCEPT !.radio = r], id, ub))

EvApStart ==
    /\ radio.mode = "ap" /\ radio.startEv
    /\ RadioEvent("AP_START", [radio EXCEPT !.startEv = FALSE])

EvApStaConnected ==
    /\ radio.mode = "ap" /\ ~radio.startEv
    /\ radio.clients < MNET32_WIFI_AP_MAX_CONNS
    /\ RadioEvent("AP_STACONNECTED",
                  [radio EXCEPT !.clients = radio.clients + 1])

EvApStaDisconnected ==
    /\ radio.mode = "ap" /\ radio.clients > 0
    /\ RadioEvent("AP_STADISCONNECTED",
                  [radio EXCEPT !.clients = radio.clients - 1])

EvStaStart ==
    /\ radio.mode = "sta" /\ radio.startEv
    /\ RadioEvent("STA_START", [radio EXCEPT !.startEv = FALSE])

EvStaConnected ==
    /\ radio.mode = "sta" /\ radio.connecting
    /\ RadioEvent("STA_CONNECTED",
                  [radio EXCEPT !.connecting = FALSE, !.connected = TRUE])

EvStaDisconnected ==
    /\ radio.mode = "sta" /\ (radio.connecting \/ radio.connected)
    /\ RadioEvent("STA_DISCONNECTED",
                  [radio EXCEPT !.connecting = FALSE, !.connected = FALSE])

(* The timer service runs the callback of an expired shutdown timer. *)

TimerExpire ==
    /\ ~crashed /\ timer = "active"
    /\ \E ub \in UBOutcomes : Becomes(wifi_ap_timed_shutdown(World, TRUE, ub))

OrphanTimerExpire ==
    /\ ~crashed /\ orphans > 0
    /\ \E ub \in UBOutcomes : Becomes(wifi_ap_timed_shutdown(World, FALSE, ub))

(* A client that reaches the device submits the credential form; the      *)
(* decoded field values are the inputs.                                    *)

Reachable ==
    \/ radio.mode = "ap" /\ radio.clients > 0
    \/ radio.mode = "sta" /\ radio.connected

\* A variant of mnet32_web_handler_config_post that posts WIFI_RESTART
\* whatever the result of the write is.
mnet32_web_handler_config_post_always_restarts(w, ssid, psk, nf, ub) ==
    LET w1 == [w EXCEPT !.nvs =
                  mnet32_web_write_config_to_nvs(w.nvs, ssid, psk, nf)]
    IN  mnet32_notify(w1, "WIFI_RESTART", "none", ub)

\* The part of the handler after the parsing of the body: write the
\* contents of the two buffers, post WIFI_RESTART if that succeeded.
mnet32_web_handler_config_post(w, ssid, psk, nf, ub) ==
    LET w1 == [w EXCEPT !.nvs =
                  mnet32_web_write_config_to_nvs(w.nvs, ssid, psk, nf)]
    IN  IF nf # "ok" THEN w1
        ELSE mnet32_notify(w1, "WIFI_RESTART", "none", ub)

\* The whole handler for the received body buf.
mnet32_web_handler_config_post_request(w, buf, nf, ub, rd, ov) ==
    LET g_ssid == mnet32_web_get_value(KeySsid, buf, rd)
        g_psk == mnet32_web_get_value(KeyPsk, buf, rd)
        c == BuffersAfterCopy(g_ssid.dec, g_ssid.ret = "ESP_OK",
                              g_psk.dec, g_psk.ret = "ESP_OK", ov)
        parsed == [w.web EXCEPT
                      !.phase = "handled", !.body = buf,
                      !.found = [ssid |-> g_ssid.ret = "ESP_OK",
                                 psk |-> g_psk.ret = "ESP_OK"],
                      !.esc = [ssid |-> g_ssid.esc, psk |-> g_psk.esc],
                      !.dec = [ssid |-> g_ssid.dec, psk |-> g_psk.dec],
                      !.oob = g_ssid.oob \/ g_psk.oob]
    IN  IF g_ssid.crash \/ g_psk.crash \/ c.crash
        THEN Crash([w EXCEPT !.web = parsed])
        ELSE mnet32_web_handler_config_post(
                 [w EXCEPT !.web = [parsed EXCEPT
                      !.ssid = c.ssid, !.psk = c.psk, !.esp_ret = nf,
                      !.response = IF nf = "ok" THEN "204" ELSE "500"]],
                 c.ssid, c.psk, nf, ub)

WebPost ==
    /\ ~crashed /\ Reachable
    /\ \E ssid \in CredVals, psk \in CredVals, nf \in NvsWriteFailures,
          ub \in UBOutcomes :
          Becomes(mnet32_web_handler_config_post(World, ssid, psk, nf, ub))

Next ==
    \/ AppStart \/ AppStop
    \/ HandleStop \/ HandleWifiStart \/ HandleWifiRestart
    \/ HandleApStart \/ HandleApStaConnected \/ HandleApStaDisconnected
    \/ HandleStaStart \/ HandleStaConnected \/ HandleStaDisconnected
    \/ EvApStart \/ EvApStaConnected \/ EvApStaDisconnected
    \/ EvStaStart \/ EvStaConnected \/ EvStaDisconnected
    \/ TimerExpire \/ OrphanTimerExpire
    \/ WebPost

Spec == Init /\ [][Next]_vars

(* ----- failing radio calls in the deinitialization ------------------------ *)

HandleWifiRestartDeinitFailing ==
    /\ Running /\ notif = "WIFI_RESTART"
    /\ deinitLog.count < MaxFailingDeinits
    /\ \E df \in DeinitFailures, wf \in WifiInitFailures,
          sf \in StaInitFailures, apf \in ApInitFailures :
          Becomes(task_wifi_restart_deinit_failing(
                      Consume(World), df, wf, sf, apf))

DeinitNext == Next \/ HandleWifiRestartDeinitFailing

\* The component before its first configuration: nothing is stored.
DeinitInit == StateIs(Boot(NvsEmpty, MNET32_WIFI_AP_PSK))

DeinitSpec == DeinitInit /\ [][DeinitNext]_vars

(* WIFI_START while a mode is set. mnet32_init posts WIFI_START on a fresh
   state only, so the controller never finds a mode set when it handles it.
   The check of wifi_init for that case is exercised by posting the
   notification through mnet32_notify, the internal interface of the
   component (mnet32_internal.h), while the WiFi is up. *)

NotifyWifiStart ==
    /\ Running /\ mode # "NA"
    /\ \E ub \in UBOutcomes :
          Becomes(mnet32_notify(World, "WIFI_START", "none", ub))

WifiStartNext == Next \/ NotifyWifiStart

WifiStartSpec == Init /\ [][WifiStartNext]_vars

(* ----- the events of the IP stack ----------------------------------------- *)

\* The DHCP server of the access point assigns an address to a client, the
\* station interface gets or loses its address. The handler only logs, so
\* that these steps change nothing but the log.
IpEvents == {"AP_STAIPASSIGNED", "STA_GOT_IP", "STA_LOST_IP"}

EvIpEvent ==
    /\ ~crashed /\ ipHandler
    /\ \E id \in IpEvents, ub \in UBOutcomes :
          /\ id = "AP_STAIPASSIGNED" => radio.mode = "ap" /\ radio.clients > 0
          /\ id # "AP_STAIPASSIGNED" => radio.mode = "sta"
          /\ Becomes(mnet32_event_handler_ip(World, id, ub))

IpNext == Next \/ EvIpEvent

IpSpec == Init /\ [][IpNext]_vars

(* ----- one POST request, from the body to the restarted WiFi -------------- *)

\* The access point with one client: start, WIFI_START without stored
\* credentials, AP_START, AP_STACONNECTED.
ApWithClient ==
    LET w1 == mnet32_start(Boot(NvsEmpty, MNET32_WIFI_AP_PSK), "ok", "benign")
        w2 == task_wifi_start(Consume(w1), "ok", "ok", "ok")
        w3 == mnet32_event_handler(
                  [w2 EXCEPT !.radio.startEv = FALSE], "AP_START", "benign")
        w4 == task_ap_start(Consume(w3), "benign")
        w5 == mnet32_event_handler(
                  [w4 EXCEPT !.radio.clients = 1], "AP_STACONNECTED", "benign")
    IN  task_ap_staconnected(Consume(w5), "benign")

\* The client has sent a body.
WebInit ==
    \E b \in Bodies :
        StateIs([ApWithClient EXCEPT
                    !.web = [WebIdle EXCEPT !.phase = "received", !.body = b]])

WebHandlePost ==
    /\ ~crashed /\ Reachable /\ web.phase = "received"
    /\ \E nf \in NvsWriteFailures, ub \in UBOutcomes, rd \in ReadOutcomes,
          ov \in Layouts :
          Becomes(mnet32_web_handler_config_post_request(
                      World, web.body, nf, ub, rd, ov))

\* The controller handles the WIFI_RESTART of the request; wifi_init reads
\* the credentials unless an earlier step of it fails.
WebRestart ==
    /\ Running /\ notif = "WIFI_RESTART" /\ web.phase = "handled"
    /\ \E wf \in WifiInitFailures, sf \in StaInitFailures,
          apf \in ApInitFailures :
          Becomes([task_wifi_restart(Consume(World), wf, sf, apf) EXCEPT
                      !.web.phase = "read",
                      !.web.read = IF wf = "ok" THEN wifi_config_read(nvs)
                                   ELSE web.read])

WebNext == WebHandlePost \/ WebRestart

WebSpec == WebInit /\ [][WebNext]_vars

(* ----- builds with other access point passwords --------------------------- *)

\* MNET32_WIFI_AP_PSK is a setting of the build: the component without
\* stored credentials, built with a password of 6 .. MaxApPskLen characters.
ApPskInit ==
    \E n \in 6..MaxApPskLen : StateIs(Boot(NvsEmpty, Rep(120, n)))

ApPskSpec == ApPskInit /\ [][Next]_vars

TypeOK ==
    /\ stateInit \in BOOLEAN
    /\ medium \in Mediums
    /\ mode \in Modes
    /\ status \in Statuses
    /\ interface \in {"null", "ap", "sta"}
    /\ medium_state \in {"null", "ap", "sta"}
    /\ attempts \in -128..127
    /\ task \in {"null", "running", "deleted"}
    /\ timer \in {"none", "dormant", "active", "deleted"}
    /\ orphans \in 0..MaxOrphans
    /\ notif \in Notifications \cup {"NONE"}
    /\ radio.clients \in 0..MNET32_WIFI_AP_MAX_CONNS
    /\ lastEvent \in {"none", "READY", "UNAVAILABLE"}
    /\ crashed \in BOOLEAN
    /\ instances.states \in Nat /\ instances.tasks \in Nat
    /\ handled \in Notifications \cup {"NONE"}
    /\ startRet \in {"none", "ESP_OK", "ESP_FAIL"}
    /\ ipLog \in {"none", "AP_STAIPASSIGNED", "unhandled"}
    /\ deinitLog.count \in 0..MaxFailingDeinits
    /\ ap_psk \in Seq(0..255)
    /\ web.phase \in {"idle", "received", "handled", "read"}

(* ----- fairness ---------------------------------------------------------- *)

ControllerStep ==
    \/ HandleStop \/ HandleWifiStart \/ HandleWifiRestart
    \/ HandleApStart \/ HandleApStaConnected \/ HandleApStaDisconnected
    \/ HandleStaStart \/ HandleStaConnected \/ HandleStaDisconnected

RadioStep ==
    \/ EvApStart \/ EvApStaConnected \/ EvApStaDisconnected
    \/ EvStaStart \/ EvStaConnected \/ EvStaDisconnected

TimerStep == TimerExpire \/ OrphanTimerExpire

\* The scheduler runs the controller task when a notification is pending,
\* the event loop delivers raised events, the timer service runs callbacks.
LiveSpec ==
    /\ Init /\ [][Next]_vars
    /\ WF_vars(ControllerStep)
    /\ WF_vars(RadioStep)
    /\ WF_vars(TimerStep)

(* ----- properties ------------------------------------------------------- *)

\* C1: in every reachable state with a ConnectionState, mode is
\* NotApplicable if and only if interface and medium_state are both NULL.
C1_ModeIffNoInterfaceNoExtension ==
    stateInit =>
        ((mode = "NA") <=> (interface = "null" /\ medium_state = "null"))

\* C2: while the controller runs, status Idle or Busy occurs only in
\* access-point mode, status Connecting or Ready only in station mode.
C2_StatusMatchesMode ==
    (stateInit /\ task = "running") =>
        /\ status \in {"IDLE", "BUSY"} => mode = "AP"
        /\ status \in {"CONNECTING", "READY"} => mode = "STA"

C4_NoTimerStopWithClient ==
    [][(HandleStop /\ stopSrc = "timer") => radio.clients = 0]_vars

\* C5: the timer callback posts STOP if and only if the status is Idle;
\* otherwise it changes nothing and does not re-arm the timer.
C5_CallbackStopsIffIdle ==
    [][TimerStep =>
          IF stateInit /\ status = "IDLE"
          THEN notif' = "STOP" /\ ~crashed'
          ELSE /\ UNCHANGED <<stateVars, notif, ipHandler, wifiHandler,
                              radio, nvs, lastEvent, crashed>>
               /\ timer' # "active"]_vars

\* C6: from AccessPoint/Idle with no client, the STOP posted by the expired
\* timer is handled by the controller, and after that step the
\* ConnectionState is uninitialized.
C6_TimerStopDestroysState ==
    [][(HandleStop /\ stopSrc = "timer" /\ mode = "AP" /\ status = "IDLE"
           /\ radio.clients = 0)
          => ~stateInit']_vars

\* C7: mnet32_stop on a component that is stopped or was never started
\* changes no state and dereferences no missing state or task handle.
C7_StopWhenStoppedIsNoOp ==
    [][(AppStop /\ ~(stateInit /\ task = "running"))
          => (~crashed' /\ UNCHANGED stateVars)]_vars

C11_WifiStartDirectlyApIdle ==
    [][(HandleWifiStart /\ nvs = NvsEmpty /\ radio'.mode = "ap")
          => (mode' = "AP" /\ status' = "IDLE")]_vars

\* C11 (amended): with no stored credentials, handling WIFI_START never
\* enters station mode and leaves the status Down; the mode is AccessPoint
\* exactly if the access point was started; the status becomes Idle when
\* the controller handles the AP_START that the started radio raises.
C11_WifiStartApThenIdle ==
    [][/\ (HandleWifiStart /\ nvs = NvsEmpty)
            => /\ mode' \in {"AP", "NA"}
               /\ status' = "DOWN"
               /\ (mode' = "AP") <=> (radio'.mode = "ap" /\ radio'.startEv)
       /\ (HandleApStart /\ mode = "AP") => status' = "IDLE"]_vars

C11_Witness ==
    /\ nvs = NvsEmpty /\ stateInit /\ task = "running"
    /\ handled = "WIFI_START" /\ notif = "NONE"
    /\ mode = "AP" /\ status = "DOWN" /\ radio.startEv

C13_BusyUntilLastClientLeft ==
    [][(HandleApStaDisconnected /\ mode = "AP" /\ status = "BUSY")
          => /\ radio.clients > 0
                  => (status' = "BUSY" /\ timer # "active" /\ timer' = timer)
             /\ status' = "IDLE" => radio.clients = 0
             /\ timer' = "active"
                  => (radio.clients = 0 /\ status' = "IDLE")]_vars

C13_Witness ==
    /\ handled = "AP_STADISCONNECTED" /\ notif = "NONE"
    /\ mode = "AP" /\ status = "BUSY" /\ radio.clients > 0
    /\ timer = "dormant"

\* C14: the notification slot holds one value: a notifier that finds a
\* pending notification overwrites it with its own value, and
\* the controller handles the value that is in the slot, which is the one
\* posted last.
C14_SlotHoldsLastPosted ==
    [][(Running /\ notif # "NONE")
          => /\ ~(notif' # "STOP" /\ AppStop)
             /\ ~(notif' # "STOP" /\ status = "IDLE" /\ TimerStep)
             /\ ~(notif' # "AP_START" /\ EvApStart)
             /\ ~(notif' # "AP_STACONNECTED" /\ EvApStaConnected)
             /\ ~(notif' # "AP_STADISCONNECTED" /\ EvApStaDisconnected)
             /\ ~(notif' # "STA_START" /\ EvStaStart)
             /\ ~(notif' # "STA_CONNECTED" /\ EvStaConnected)
             /\ ~(notif' # "STA_DISCONNECTED" /\ EvStaDisconnected)
             /\ ~(/\ handled' # notif \/ notif' \notin {"NONE", "STOP"}
                  /\ ControllerStep)]_vars

C14_Witness ==
    /\ Running /\ mode = "AP" /\ status = "IDLE" /\ timer = "active"
    /\ handled = "AP_START" /\ notif = "AP_STADISCONNECTED"
    /\ radio.clients = 0

\* C15: a STOP posted by mnet32_stop to a running controller stays pending
\* until the controller handles it, whatever the radio, the timer and the
\* POST handler do in between.
C15_AppStopStaysPending ==
    [][(Running /\ notif = "STOP" /\ stopSrc = "app"
           /\ (RadioStep \/ TimerStep \/ WebPost))
          => notif' = "STOP"]_vars

\* C16: handling STOP emits Unavailable and tears everything down, and
\* afterwards the networking is Down: radio off, no handler registered, no
\* controller task, and no ConnectionState with a status other than Down.
C16_StopLeavesDown ==
    [][HandleStop
          => /\ lastEvent' = "UNAVAILABLE"
             /\ radio'.mode = "off" /\ ~wifiHandler' /\ ~ipHandler'
             /\ task' # "running"
             /\ stateInit' => status' = "DOWN"]_vars

\* C17: at most one ConnectionState record is allocated and at most one
\* controller task is alive, and they are the ones the state refers to.
C17_Singleton ==
    /\ instances.states <= 1 /\ instances.tasks <= 1
    /\ stateInit <=> instances.states = 1
    /\ (stateInit /\ task = "running") <=> instances.tasks = 1

C17_Witness ==
    /\ instances = [states |-> 1, tasks |-> 1]
    /\ handled = "WIFI_START" /\ lastEvent = "UNAVAILABLE"

\* C18: only steps of the controller task change medium, mode, status,
\* interface and the mode extension.
C18_OnlyControllerMutates ==
    [][(AppStart \/ AppStop \/ RadioStep \/ TimerStep \/ WebPost)
          => UNCHANGED <<medium, mode, status, interface, medium_state,
                         attempts>>]_vars

\* C19: whenever the initialization of the access point fails while the
\* controller handles WIFI_START, WIFI_RESTART or the fallback from station
\* mode, the controller has posted itself a STOP.
C19_ApInitFailurePostsStop ==
    [][\A sf \in StaInitFailures, apf \in {"netif", "set_mode", "set_config", "start"} :
          /\ (/\ HandleWifiStart /\ mode = "NA"
              /\ ~(wifi_get_config_from_nvs(nvs) /\ StaInitOk(sf))
              /\ Becomes(task_wifi_start(Consume(World), "ok", sf, apf)))
                => notif' = "STOP"
          /\ (/\ HandleWifiRestart
              /\ ~(wifi_get_config_from_nvs(nvs) /\ StaInitOk(sf))
              /\ Becomes(task_wifi_restart(Consume(World), "ok", sf, apf)))
                => notif' = "STOP"
          /\ (/\ HandleStaDisconnected /\ medium_state = "sta"
              /\ AttemptsExceeded(attempts)
              /\ Becomes(task_sta_disconnected(Consume(World), "ok", apf,
                                               "benign")))
                => notif' = "STOP"]_vars

\* C20: if the credentials cannot be read from the store (namespace
\* missing, key missing, value larger than the buffer), handling WIFI_START
\* does not enter station mode, starts the access point if the radio calls
\* succeed, and posts no STOP: the controller task keeps running.
C20_StoreFailureMeansAccessPoint ==
    [][(/\ HandleWifiStart /\ mode = "NA"
        /\ \/ ~nvs.ns
           \/ nvs.ssid \in {NvsMissing, LongVal}
           \/ nvs.psk \in {NvsMissing, LongVal})
          => /\ mode' # "STA" /\ medium_state' # "sta" /\ interface' # "sta"
             /\ radio'.mode # "sta"
             /\ (mode' = "AP") <=> (radio'.mode = "ap")
             /\ task' = "running" /\ notif' = "NONE" /\ ~crashed']_vars

C20_Witness ==
    /\ nvs.ns /\ nvs.ssid = LongVal /\ nvs.psk = Net1
    /\ handled = "WIFI_START" /\ task = "running"
    /\ mode = "AP" /\ radio.mode = "ap"

(* ----- C21 --------------------------------------------------------------- *)

C25_RestartOnlyAfterWrite ==
    [][WebHandlePost =>
          /\ (~crashed' /\ web'.esp_ret = "ok") =>
                /\ web'.response = "204" /\ notif' = "WIFI_RESTART"
                /\ nvs' = [ns |-> TRUE, ssid |-> web'.ssid, psk |-> web'.psk]
          /\ (~crashed' /\ web'.esp_ret # "ok") =>
                /\ web'.response = "500" /\ notif' = notif
                /\ nvs'.psk = nvs.psk
          /\ (notif' = "WIFI_RESTART" /\ notif # "WIFI_RESTART") =>
                /\ web'.esp_ret = "ok"
                /\ nvs'.ssid = web'.ssid /\ nvs'.psk = web'.psk]_vars

\* A request that failed to write the PSK was answered with 500 and left
\* the notification slot empty.
C25_Witness ==
    /\ web.phase = "handled" /\ web.esp_ret = "psk" /\ web.response = "500"
    /\ notif = "NONE" /\ nvs.ssid = web.ssid /\ nvs.psk = NvsMissing

(* ----- C26 --------------------------------------------------------------- *)

\* C26: for every SSID of at most 32 bytes and every PSK of at most 64
\* bytes, the percent-encoded form body, handled by the POST handler and
\* read back from the store by the restarted WiFi, yields the two values.
C26_RoundTrip ==
    \A v_ssid \in RawSsids, v_psk \in RawPsks :
        (/\ web.phase = "read" /\ web.read.done
         /\ web.body = Form(v_ssid, v_psk))
        => /\ web.read.ok
           /\ web.read.ssid = v_ssid
           /\ web.read.psk = v_psk

(* ----- C27 .. C29: what the form says the fields of a body are ------------ *)

\* The fields of a body: the parts between the '&'.
RECURSIVE RefSplit(_)
RefSplit(b) ==
    LET k == StrStr(b, <<ChAmp>>, 1)
    IN  IF k = 0 THEN <<b>>
        ELSE <<SubSeq(b, 1, k - 1)>> \o RefSplit(SubSeq(b, k + 1, Len(b)))

RefIsField(f, key) ==
    Len(f) > Len(key) /\ SubSeq(f, 1, Len(key) + 1) = key \o <<ChEq>>

RefHasField(b, key) ==
    \E i \in DOMAIN RefSplit(b) : RefIsField(RefSplit(b)[i], key)

\* The text between 'key=' and the next '&' or the end of the body.
RefField(b, key) ==
    LET fs == RefSplit(b)
        i == CHOOSE i \in DOMAIN fs :
                 /\ RefIsField(fs[i], key)
                 /\ \A j \in DOMAIN fs : RefIsField(fs[j], key) => i <= j
    IN  SubSeq(fs[i], Len(key) + 2, Len(fs[i]))

RefIsHex(c) == c \in (48..57) \cup (65..70) \cup (97..102)

RefHex(c) ==
    IF c \in 48..57 THEN c - 48 ELSE IF c \in 65..70 THEN c - 55 ELSE c - 87

\* Percent-decoding: '%' and two hex digits are one byte, everything else,
\* a malformed escape included, is literal.
RECURSIVE RefDecode(_)
RefDecode(v) ==
    IF v = <<>> THEN <<>>
    ELSE IF Len(v) >= 3 /\ v[1] = ChPercent /\ RefIsHex(v[2]) /\ RefIsHex(v[3])
         THEN <<16 * RefHex(v[2]) + RefHex(v[3])>>
                  \o RefDecode(SubSeq(v, 4, Len(v)))
         ELSE <<v[1]>> \o RefDecode(Tail(v))

\* The value of a field as a C string.
RefValue(b, key) == CStr(RefDecode(RefField(b, key)) \o <<0>>)

\* C27: for a body with both fields whose values fit the buffers, the
\* handler extracts for each key the percent-decoded text between 'key='
\* and the next '&' or the end, whatever the order of the fields is and
\* whether or not a value contains the name of the other key.
C27_FieldsExtracted ==
    (/\ web.phase = "handled"
     /\ RefHasField(web.body, KeySsid) /\ RefHasField(web.body, KeyPsk)
     /\ Len(RefValue(web.body, KeySsid)) < MNET32_WIFI_SSID_MAX_LEN
     /\ Len(RefValue(web.body, KeyPsk)) < MNET32_WIFI_PSK_MAX_LEN)
    => /\ ~crashed
       /\ web.ssid = RefValue(web.body, KeySsid)
       /\ web.psk = RefValue(web.body, KeyPsk)

(* ----- C28 --------------------------------------------------------------- *)

\* C28: the decoding of a value leaves a malformed escape (a '%' not
\* followed by two hex digits, a trailing '%' included) literal, decodes
\* the well-formed ones, and accesses nothing outside the value buffer.
C28_MalformedEscapeLiteral ==
    web.phase \in {"handled", "read"} =>
        /\ ~web.oob
        /\ web.found.ssid =>
              web.dec.ssid = CStr(RefDecode(web.esc.ssid) \o <<0>>)
        /\ web.found.psk =>
              web.dec.psk = CStr(RefDecode(web.esc.psk) \o <<0>>)

\* The value "b%" with its trailing '%' was decoded and is unchanged.
C28_Witness ==
    /\ web.phase = "handled" /\ ~crashed /\ ~web.oob
    /\ web.esc.psk = <<98, 37>> /\ web.dec.psk = <<98, 37>>
    /\ web.psk = <<98, 37>>

(* ----- C29 --------------------------------------------------------------- *)

\* C29: for a body without the ssid field or without the psk field the
\* handler does not fail, takes the empty string for the missing field,
\* writes both values and posts WIFI_RESTART.
C29_MissingFieldIsEmpty ==
    web.phase = "handled" =>
        /\ ~RefHasField(web.body, KeySsid) => ~crashed /\ web.ssid = <<>>
        /\ ~RefHasField(web.body, KeyPsk) => ~crashed /\ web.psk = <<>>
        /\ (/\ ~RefHasField(web.body, KeySsid) \/ ~RefHasField(web.body, KeyPsk)
            /\ web.esp_ret = "ok")
           => /\ nvs = [ns |-> TRUE, ssid |-> web.ssid, psk |-> web.psk]
              /\ notif = "WIFI_RESTART"

(* ----- C30 --------------------------------------------------------------- *)

\* C30: the access point is open exactly when the configured password has
\* fewer than 8 characters; with 8 or more it uses WPA/WPA2-PSK.
C30_OpenIffPskShorterThan8 ==
    radio.mode = "ap" =>
        /\ radio.auth = "open" <=> Len(ap_psk) < 8
        /\ radio.auth = "wpa_wpa2_psk" <=> Len(ap_psk) >= 8

(* ----- C31 --------------------------------------------------------------- *)

\* C31: the handling of an IP_EVENT posts no notification and leaves the
\* ConnectionState as it is.
C31_IpEventsOnlyLogged ==
    [][EvIpEvent => notif' = notif /\ UNCHANGED stateVars]_vars

\* The assignment of an address to a client of the access point was logged.
C31_Witness ==
    /\ ipLog = "AP_STAIPASSIGNED" /\ mode = "AP" /\ radio.clients > 0

(* ----- C32 --------------------------------------------------------------- *)

\* C32: a WIFI_RESTART posted by the POST handler is not lost to a radio
\* event: while it is pending, a WIFI_EVENT leaves it in the notification
\* slot for the controller to handle.
C32_RestartNotLost ==
    [][(notif = "WIFI_RESTART" /\ notif' # "WIFI_RESTART")
          => ~RadioStep]_vars

(* ----- C33 --------------------------------------------------------------- *)

C34_DeinitIgnoresFailures ==
    /\ deinitLog.ret # "ESP_FAIL"
    /\ (Running /\ notif = "WIFI_RESTART") =>
          \A df \in DeinitFailures :
              LET w == mnet32_wifi_deinit_failing(
                           mnet32_emit_event(Consume(World), "UNAVAILABLE"), df)
              IN  /\ w.deinitLog.ret = "ESP_OK"
                  /\ w.medium = "UNSPECIFIED" /\ w.mode = "NA"

\* The WiFi of a running access point was deinitialized with a failing
\* esp_wifi_stop and not started again: no medium, no mode.
C34_Witness ==
    /\ deinitLog.ret = "ESP_OK"
    /\ handled = "WIFI_RESTART" /\ radio.mode = "ap"
    /\ medium = "UNSPECIFIED" /\ mode = "NA"

\* C35: handling WIFI_START while a mode is set returns success (no STOP is
\* posted) and leaves medium, mode, status, interface and the mode extension
\* as they are; the radio is not initialized and the WiFi event handler is
\* not registered a second time.
C35_WifiStartIdempotent ==
    [][(HandleWifiStart /\ mode # "NA") =>
          /\ notif' = "NONE"
          /\ UNCHANGED <<medium, mode, status, interface, medium_state,
                         attempts, timer, radio, wifiHandler, instances,
                         lastEvent>>]_vars

\* WIFI_START was handled while a client was connected to the access point.
C35_Witness ==
    /\ handled = "WIFI_START" /\ mode = "AP" /\ status = "BUSY"
    /\ radio.mode = "ap" /\ radio.clients > 0 /\ wifiHandler

\* C36: start() on a component that is already initialized returns failure
\* and leaves the ConnectionState, the controller task, the registered
\* handlers and the active mode as they are.
C36_SecondStartLeavesInstance ==
    [][(AppStart /\ stateInit) =>
          /\ startRet' = "ESP_FAIL"
          /\ UNCHANGED <<stateVars, ipHandler, wifiHandler, radio, timer,
                         instances>>]_vars

\* C37: every call of mnet32_notify (stop, the radio event handler, the
\* timer callback that finds the status idle) happens while the
\* ConnectionState is initialized and its controller task exists.
C37_NotifyOnlyOnLiveTask ==
    [][(\/ AppStop
        \/ EvApStart \/ EvApStaConnected \/ EvApStaDisconnected
        \/ EvStaStart \/ EvStaConnected \/ EvStaDisconnected
        \/ ((TimerExpire \/ OrphanTimerExpire)
              /\ (stateInit => mnet32_state_is_status_idle(World))))
          => (stateInit /\ task = "running")]_vars

\* C38: a request that is answered with 500 leaves the stored SSID and the
\* stored PSK as they were before the request.
C38_FailedWriteKeepsPair ==
    [][(WebHandlePost /\ web'.response = "500") =>
          (nvs'.ssid = nvs.ssid /\ nvs'.psk = nvs.psk)]_vars

\* C39: when esp_wifi_ap_get_sta_list fails while AP_STADISCONNECTED is
\* handled, the status stays what it was (Busy stays Busy) and the shutdown
\* timer is not started.
C39_UnknownCountKeepsBusy ==
    (Running /\ notif = "AP_STADISCONNECTED") =>
        \A ub \in UBOutcomes :
            LET w == task_ap_stadisconnected(Consume(World), "err", ub)
            IN  /\ w.status = status /\ w.timer = timer
                /\ ~w.crashed

\* The last client has left, the controller has handled its
\* AP_STADISCONNECTED and nothing is pending, but the access point is still
\* Busy and its timer is not running: the query had failed.
C39_Witness ==
    /\ Running /\ handled = "AP_STADISCONNECTED" /\ notif = "NONE"
    /\ mode = "AP" /\ radio.mode = "ap" /\ radio.clients = 0
    /\ status = "BUSY" /\ timer = "dormant"

====
